---- MODULE Spec2Model ----
(***************************************************************************)
(* Model of src/hooks/usePortsMetadata.js (Nord Docs): the hook that       *)
(* merges the static port metadata (projectPorts) with the repository      *)
(* records of the GitHub static query, sorts the merged list and memoizes  *)
(* it on the identity of the query result.                                 *)
(*                                                                         *)
(* JavaScript objects are TLA+ records/functions over field names, arrays  *)
(* are sequences, strings are strings.  Array indices in the sort routines *)
(* are the 0-based indices of the engine code (At/Put translate them).     *)
(***************************************************************************)
EXTENDS Integers, Sequences, FiniteSets, TLC

VARIABLES
  projectPorts,  \* the imported static list (a constant of the bundle)
  engine,        \* which Array.prototype.sort the build runs on
  gitHubApi,     \* what useStaticQuery returns: [ref, edges]
  idProperty,    \* argument of the latest call
  memo,          \* the useMemo cell of the hook instance: [set, dep, ref, list]
  merged,        \* the local `merged` of the latest merge run, before the sort
  ran,           \* did the latest call execute the merge body
  ret,           \* outcome of the latest call: [kind, ref, list]
  lastApi,       \* history: identity of gitHubApi at the previous call (0: none)
  runs,          \* history: inputs and output of every completed merge run
  lists,         \* number of arrays the merge body has allocated (identities)
  fetches        \* number of query result objects created (identities)

vars == <<projectPorts, engine, gitHubApi, idProperty, memo, merged, ran, ret,
          lastApi, runs, lists, fetches>>

----------------------------------------------------------------------------
(* Bounds *)

MaxPorts == 3
MaxRepos == 3
MaxFetches == 2
MaxLists == 3

----------------------------------------------------------------------------
(* JavaScript values *)

Undefined == [undefined |-> TRUE]

ROUTE_PORTS == "/ports"

IdProperties == {"name", "id", "color"}

\* a === b for the property f of two objects
StrictEq(a, b, f) ==
  IF f \in DOMAIN a /\ f \in DOMAIN b THEN a[f] = b[f]
  ELSE f \notin DOMAIN a /\ f \notin DOMAIN b

\* { ...a, ...b }
Spread(a, b) ==
  [f \in DOMAIN a \cup DOMAIN b |-> IF f \in DOMAIN b THEN b[f] ELSE a[f]]

\* const { releases, stargazers, url, ...rest } = obj
Rest(obj, taken) == [f \in DOMAIN obj \ taken |-> obj[f]]

----------------------------------------------------------------------------
(* Input data: repository nodes as the query shapes them, and static ports *)

Release(n) == [node |-> [name |-> n, url |-> "rel/" \o n]]

GitHubRepository(i, n, stars, rel) ==
  [node |-> [id |-> i, name |-> n, releases |-> [edges |-> rel],
             stargazers |-> [totalCount |-> stars], url |-> "gh/" \o n]]

repoVim == GitHubRepository("R1", "nord-vim", 10, <<>>)
repoY == GitHubRepository("R2", "x-nord-y", 20, <<Release("v2")>>)
repoVimFork == GitHubRepository("R2", "nord-vim", 5, <<Release("v3")>>)
repoX == GitHubRepository("R3", "nord-nord-x", 20, <<>>)

RepoPool == {repoVim, repoY, repoVimFork, repoX}

portVim == [name |-> "nord-vim"]
portY == [name |-> "x-nord-y", id |-> "R3", color |-> "blue"]
portX ==
  [name |-> "nord-nord-x", id |-> "R1", url |-> "/custom",
   stargazers |-> [count |-> 15, url |-> "s/15"]]
portVimFork ==
  [name |-> "nord-vim", id |-> "R2",
   releaseLatest |-> [name |-> "mine", url |-> "rel/mine"],
   gitHubRepositoryUrl |-> "gh/mine"]

PortPool == {portVim, portY, portX, portVimFork}

SeqsUpTo(S, n) == UNION { [1..k -> S] : k \in 0..n }

----------------------------------------------------------------------------
(* The merge body, lines 85-96 *)

\* position of the first "nord-" in name, 0 when there is none
firstNord(name) ==
  LET at == {k \in 1..(Len(name) - 4) : SubSeq(name, k, k + 4) = "nord-"}
  IN  IF at = {} THEN 0 ELSE CHOOSE k \in at : \A l \in at : k <= l

\* faulty variant: the pattern without its ^ anchor, name.replace(/(nord-)/, "")
stripPrefixUnanchored(name) ==
  IF firstNord(name) = 0 THEN name
  ELSE SubSeq(name, 1, firstNord(name) - 1)
         \o SubSeq(name, firstNord(name) + 5, Len(name))

\* name.replace(/^(nord-)/, "")
stripPrefix(name) ==
  IF Len(name) >= 5 /\ SubSeq(name, 1, 5) = "nord-"
  THEN SubSeq(name, 6, Len(name))
  ELSE name

\* faulty variant: the last match instead of the first
findLast(edges, port, p) ==
  LET at == {j \in 1..Len(edges) : StrictEq(edges[j].node, port, p)}
  IN  IF at = {} THEN 0 ELSE CHOOSE j \in at : \A k \in at : k <= j

\* edges.find(ghRepo => ghRepo.node[idProperty] === port[idProperty]):
\* index of the first match, 0 when find returns undefined
RECURSIVE findFrom(_, _, _, _)
findFrom(edges, port, p, i) ==
  IF i > Len(edges) THEN 0
  ELSE IF StrictEq(edges[i].node, port, p) THEN i
  ELSE findFrom(edges, port, p, i + 1)

find(edges, port, p) == findFrom(edges, port, p, 1)

\* faulty variant: the edge instead of its node, releases.edges[0]
releaseLatestEdge(releases) ==
  IF Len(releases.edges) = 0 THEN Undefined ELSE releases.edges[1]

\* releases.edges[0]?.node
releaseLatest(releases) ==
  IF Len(releases.edges) = 0 THEN Undefined ELSE releases.edges[1].node

\* faulty variant: the remote fields spread after the static ones
mergeRecordRemoteLast(port, gh) ==
  LET url == gh.node.url
      ghRepoData == Rest(gh.node, {"releases", "stargazers", "url"})
      derived ==
        [gitHubRepositoryUrl |-> url,
         stargazers |-> [count |-> gh.node.stargazers.totalCount,
                         url |-> url \o "/stargazers"],
         releaseLatest |-> releaseLatest(gh.node.releases),
         url |-> ROUTE_PORTS \o "/" \o stripPrefix(gh.node.name)]
  IN  Spread(Spread(derived, port), ghRepoData)

\* the object literal of lines 88-95
mergeRecord(port, gh) ==
  LET url == gh.node.url
      ghRepoData == Rest(gh.node, {"releases", "stargazers", "url"})
      derived ==
        [gitHubRepositoryUrl |-> url,
         stargazers |-> [count |-> gh.node.stargazers.totalCount,
                         url |-> url \o "/stargazers"],
         releaseLatest |-> releaseLatest(gh.node.releases),
         url |-> ROUTE_PORTS \o "/" \o stripPrefix(gh.node.name)]
  IN  Spread(Spread(derived, ghRepoData), port)

\* faulty variant: a port without a match is left out, gh && {...}
mapPortsSkipping(ports, edges, p) ==
  LET matched == SelectSeq(ports, LAMBDA port : find(edges, port, p) # 0)
  IN  [threw |-> FALSE,
       array |-> [i \in 1..Len(matched) |->
                    mergeRecord(matched[i], edges[find(edges, matched[i], p)])]]

\* projectPorts.map(port => ...): gh is undefined for a port without a match,
\* and destructuring gh.node then throws a TypeError out of map
mapPorts(ports, edges, p) ==
  IF \E i \in 1..Len(ports) : find(edges, ports[i], p) = 0
  THEN [threw |-> TRUE, array |-> <<>>]
  ELSE [threw |-> FALSE,
        array |-> [i \in 1..Len(ports) |->
                     mergeRecord(ports[i], edges[find(edges, ports[i], p)])]]

----------------------------------------------------------------------------
(* merged.sort((md1, md2) => md1.stargazers.count < md2.stargazers.count), *)
(* line 97.  The callback returns a boolean, which the engine converts to  *)
(* the number 1 or 0 and never to a negative one: it is not a consistent   *)
(* comparator, so the order is whatever the engine's algorithm makes of it.*)
(* Two engines a build of the site runs on are modelled, each for the      *)
(* array lengths on which it uses the routine below (TimSort: one run,     *)
(* length < 64; legacy: length <= 10).                                     *)

Engines == {"timsort", "legacy"}

At(a, i) == a[i + 1]
Put(a, i, v) == [a EXCEPT ![i + 1] = v]

\* ToNumber of the callback's boolean
comparefn(md1, md2) ==
  IF md1.stargazers.count < md2.stargazers.count THEN 1 ELSE 0

\* V8 >= 7.0 array-sort.tq, CountAndMakeRun: length of the run that starts at
\* lowArg, and whether it is strictly descending
RECURSIVE runEnd(_, _, _, _)
runEnd(a, idx, high, isDescending) ==
  IF idx >= high THEN idx
  ELSE LET order == comparefn(At(a, idx), At(a, idx - 1))
       IN  IF (isDescending /\ order >= 0) \/ (~isDescending /\ order < 0)
           THEN idx
           ELSE runEnd(a, idx + 1, high, isDescending)

\* ReverseRange(from, to)
reverseRange(a, from, to) ==
  [k \in 1..Len(a) |->
     IF k - 1 >= from /\ k - 1 < to THEN At(a, from + to - 1 - (k - 1)) ELSE a[k]]

countAndMakeRun(a, lowArg, high) ==
  IF lowArg + 1 = high THEN [array |-> a, runLength |-> 1]
  ELSE LET isDescending == comparefn(At(a, lowArg + 1), At(a, lowArg)) < 0
           end == runEnd(a, lowArg + 2, high, isDescending)
       IN  [array |-> IF isDescending THEN reverseRange(a, lowArg, end) ELSE a,
            runLength |-> end - lowArg]

\* the binary search of BinaryInsertionSort
RECURSIVE binarySearch(_, _, _, _)
binarySearch(a, pivot, left, right) ==
  IF left >= right THEN left
  ELSE LET mid == left + ((right - left) \div 2)
       IN  IF comparefn(pivot, At(a, mid)) < 0
           THEN binarySearch(a, pivot, left, mid)
           ELSE binarySearch(a, pivot, mid + 1, right)

\* the move of workArray[left .. start) one slot up and the pivot into left
insertAt(a, left, start) ==
  [k \in 1..Len(a) |->
     IF k - 1 = left THEN At(a, start)
     ELSE IF k - 1 > left /\ k - 1 <= start THEN At(a, k - 2)
     ELSE a[k]]

RECURSIVE binaryInsertionSort(_, _, _, _)
binaryInsertionSort(a, low, start, high) ==
  IF start >= high THEN a
  ELSE LET left == binarySearch(a, At(a, start), low, start)
       IN  binaryInsertionSort(insertAt(a, left, start), low, start + 1, high)

\* ArrayTimSortImpl for an array of one run (length < 64)
timSort(a) ==
  IF Len(a) < 2 THEN a
  ELSE LET run == countAndMakeRun(a, 0, Len(a))
       IN  IF run.runLength < Len(a)
           THEN binaryInsertionSort(run.array, 0, run.runLength, Len(a))
           ELSE run.array

\* faulty variant: the inner loop without the final a[j + 1] = element
RECURSIVE insertionInnerNoStore(_, _, _, _)
insertionInnerNoStore(a, j, from, element) ==
  IF j >= from /\ comparefn(At(a, j), element) > 0
  THEN insertionInnerNoStore(Put(a, j + 1, At(a, j)), j - 1, from, element)
  ELSE a

\* V8 < 7.0 array.js, InsertionSort: the inner loop over j
RECURSIVE insertionInner(_, _, _, _)
insertionInner(a, j, from, element) ==
  IF j >= from /\ comparefn(At(a, j), element) > 0
  THEN insertionInner(Put(a, j + 1, At(a, j)), j - 1, from, element)
  ELSE Put(a, j + 1, element)

RECURSIVE insertionSort(_, _, _)
insertionSort(a, i, to) ==
  IF i >= to THEN a
  ELSE insertionSort(insertionInner(a, i - 1, 0, At(a, i)), i + 1, to)

\* Array.prototype.sort on the engine e
sort(a, e) ==
  IF e = "timsort" THEN timSort(a) ELSE insertionSort(a, 1, Len(a))

\* faulty variant: `merged` kept outside the callback and appended to on every run
mergedMetadataAccumulating(ports, edges, p, e) ==
  LET m == mapPorts(ports, edges, p)
  IN  [threw |-> m.threw, merged |-> IF m.threw THEN <<>> ELSE merged \o m.array,
       list |-> IF m.threw THEN <<>> ELSE sort(merged \o m.array, e)]

\* the callback of useMemo, lines 84-98: [threw, merged, list]
mergedMetadata(ports, edges, p, e) ==
  LET m == mapPorts(ports, edges, p)
  IN  [threw |-> m.threw, merged |-> m.array,
       list |-> IF m.threw THEN <<>> ELSE sort(m.array, e)]

----------------------------------------------------------------------------
(* The hook as a state machine: a component instance calls it on every     *)
(* render; the query result keeps its identity until the site's data layer *)
(* delivers a new result object; a render that throws ends the instance.   *)

NoMemo == [set |-> FALSE, dep |-> 0, ref |-> 0, list |-> <<>>]
NoReturn == [kind |-> "none", ref |-> 0, list |-> <<>>]
Fault == [kind |-> "fault", ref |-> 0, list |-> <<>>]

\* faulty variant: useMemo without a dependency array, recomputed on every render
memoHitNever(m, api) == FALSE

\* useMemo(..., [gitHubApi]): the stored dependency is the same object
memoHit(m, api) == m.set /\ m.dep = api.ref

InitWith(ports, edges) ==
  /\ projectPorts = ports
  /\ engine \in Engines
  /\ gitHubApi = [ref |-> 1, edges |-> edges]
  /\ idProperty = "name"
  /\ memo = NoMemo
  /\ merged = <<>>
  /\ ran = FALSE
  /\ ret = NoReturn
  /\ lastApi = 0
  /\ runs = <<>>
  /\ lists = 0
  /\ fetches = 1

\* usePortsMetadata(p), lines 67-100
Render(p) ==
  /\ ret.kind # "fault"
  /\ idProperty' = p
  /\ lastApi' = gitHubApi.ref
  /\ IF memoHit(memo, gitHubApi)
     THEN /\ ret' = [kind |-> "list", ref |-> memo.ref, list |-> memo.list]
          /\ ran' = FALSE
          /\ UNCHANGED <<memo, merged, runs, lists>>
     ELSE LET r == mergedMetadata(projectPorts, gitHubApi.edges, p, engine)
          IN  /\ lists < MaxLists
              /\ ran' = TRUE
              /\ merged' = r.merged
              /\ IF r.threw
                 THEN /\ ret' = Fault
                      /\ UNCHANGED <<memo, runs, lists>>
                 ELSE /\ lists' = lists + 1
                      /\ ret' = [kind |-> "list", ref |-> lists + 1, list |-> r.list]
                      /\ memo' = [set |-> TRUE, dep |-> gitHubApi.ref,
                                  ref |-> lists + 1, list |-> r.list]
                      /\ runs' = Append(runs, [ports |-> projectPorts,
                                               edges |-> gitHubApi.edges,
                                               idProperty |-> p, list |-> r.list])
  /\ UNCHANGED <<projectPorts, engine, gitHubApi, fetches>>

\* useStaticQuery hands out a new result object (line 68)
Refetch(edges) ==
  /\ fetches < MaxFetches
  /\ fetches' = fetches + 1
  /\ gitHubApi' = [ref |-> fetches + 1, edges |-> edges]
  /\ UNCHANGED <<projectPorts, engine, idProperty, memo, merged, ran, ret,
                 lastApi, runs, lists>>

\* a new component instance: its hook cells start empty
Remount ==
  /\ ret.kind # "none"
  /\ memo' = NoMemo
  /\ ret' = NoReturn
  /\ ran' = FALSE
  /\ lastApi' = 0
  /\ UNCHANGED <<projectPorts, engine, gitHubApi, idProperty, merged, runs,
                 lists, fetches>>

HookPorts == { <<portY>>, <<portY, portX>>, <<portVim, portY, portX>> }
HookEdges == { <<repoVim, repoY>>, <<repoY, repoX, repoVim>>, <<repoVimFork>> }

Init == \E ports \in HookPorts, edges \in HookEdges : InitWith(ports, edges)

Next ==
  \/ \E p \in IdProperties : Render(p)
  \/ \E edges \in HookEdges : Refetch(edges)
  \/ Remount

Spec == Init /\ [][Next]_vars

\* the merge as a function of its inputs: the first render of an instance
InitMerge ==
  \E ports \in SeqsUpTo(PortPool, MaxPorts), edges \in SeqsUpTo(RepoPool, MaxRepos) :
    InitWith(ports, edges)

MountRender(p) == ret.kind = "none" /\ Render(p)

NextMerge == \E p \in IdProperties : MountRender(p)

SpecMerge == InitMerge /\ [][NextMerge]_vars

----------------------------------------------------------------------------
(* Properties.  Under SpecMerge the state after the single call holds the  *)
(* inputs (projectPorts, gitHubApi, idProperty) and the outcome (merged,   *)
(* ret) of one merge run.                                                  *)

RemoteTaken == {"releases", "stargazers", "url"}

\* the positions of the remote records that carry the port's join value
Matches(port) ==
  {j \in 1..Len(gitHubApi.edges) : StrictEq(gitHubApi.edges[j].node, port, idProperty)}

Least(S) == CHOOSE x \in S : \A y \in S : x <= y

\* the first remote record, in edge order, that matches the i-th static record
FirstRemote(i) == gitHubApi.edges[Least(Matches(projectPorts[i]))].node

Covered == \A i \in 1..Len(projectPorts) : Matches(projectPorts[i]) # {}

\* the latest call executed the merge body and it returned a list
MergeReturned == ran /\ ret.kind = "list"

StartsWithNord(n) == Len(n) >= 5 /\ SubSeq(n, 1, 5) = "nord-"

\* C1: the returned list is in descending order of stargazers.count: every
\* record's count is at least the count of the record after it.
C1_Descending ==
  MergeReturned =>
    \A i \in 1..(Len(ret.list) - 1) :
      ret.list[i].stargazers.count >= ret.list[i + 1].stargazers.count

\* C2: the record merged for a static record S and its remote record R has the
\* fields of the three layers, every field of S with S's value, every remaining
\* field of R that S lacks with R's value, and the derived gitHubRepositoryUrl
\* and stargazers where neither S nor R's remaining fields define them; and it
\* is one of the records returned.
C2_Layers ==
  MergeReturned =>
    \A i \in 1..Len(projectPorts) :
      LET S == projectPorts[i]
          R == FirstRemote(i)
          md == merged[i]
      IN  /\ DOMAIN md = {"gitHubRepositoryUrl", "stargazers", "releaseLatest", "url"}
                           \cup (DOMAIN R \ RemoteTaken) \cup DOMAIN S
          /\ \A f \in DOMAIN S : md[f] = S[f]
          /\ \A f \in (DOMAIN R \ RemoteTaken) \ DOMAIN S : md[f] = R[f]
          /\ "gitHubRepositoryUrl" \notin DOMAIN S => md.gitHubRepositoryUrl = R.url
          /\ "stargazers" \notin DOMAIN S =>
               md.stargazers = [count |-> R.stargazers.totalCount,
                                url |-> R.url \o "/stargazers"]
          /\ \E j \in 1..Len(ret.list) : ret.list[j] = md

\* a static record that defines url and stargazers itself is merged, on the id
\* field, with a remote record of another name
C2_Witness ==
  /\ MergeReturned
  /\ idProperty = "id"
  /\ \E i \in 1..Len(projectPorts) :
       /\ projectPorts[i] = portX
       /\ FirstRemote(i).name # portX.name
       /\ merged[i].url = "/custom"

\* C3: when some static record has no remote record with its join value, the
\* call ends in the fault: no list is returned and none is stored.
C3_MissingMatchFaults ==
  (ran /\ ~Covered) => (ret = Fault /\ memo = NoMemo)

\* the merge ran on a static list of which one record matches and one does not
C3_Witness ==
  /\ ran
  /\ ret.kind = "fault"
  /\ \E i, k \in 1..Len(projectPorts) :
       Matches(projectPorts[i]) # {} /\ Matches(projectPorts[k]) = {}

\* C4: when every static record has a match, a list is returned that has the
\* length of the static list and is a rearrangement of the records merged for
\* the static records, one each.
C4_OnePerStatic ==
  (ran /\ Covered) =>
    /\ ret.kind = "list"
    /\ Len(ret.list) = Len(projectPorts)
    /\ Len(merged) = Len(projectPorts)
    /\ \E pi \in Permutations(1..Len(projectPorts)) :
         \A i \in 1..Len(projectPorts) : ret.list[pi[i]] = merged[i]

\* three static records, two of them matching the same remote record, and a
\* sort that moved records
C4_Witness ==
  /\ MergeReturned
  /\ Len(projectPorts) = 3
  /\ ret.list # merged
  /\ \E i, k \in 1..Len(projectPorts) :
       i # k /\ Least(Matches(projectPorts[i])) = Least(Matches(projectPorts[k]))

\* C7: for a static record without a url field, url is ROUTE_PORTS, "/" and
\* the matched remote record's name, less "nord-" when the name starts with it.
C7_UrlFromRemoteName ==
  MergeReturned =>
    \A i \in 1..Len(projectPorts) :
      "url" \notin DOMAIN projectPorts[i] =>
        LET n == FirstRemote(i).name
            u == merged[i].url
            base == ROUTE_PORTS \o "/"
        IN  /\ Len(u) >= Len(base)
            /\ SubSeq(u, 1, Len(base)) = base
            /\ IF StartsWithNord(n)
               THEN "nord-" \o SubSeq(u, Len(base) + 1, Len(u)) = n
               ELSE SubSeq(u, Len(base) + 1, Len(u)) = n

\* joined on another field than name: a record from a remote name with "nord-"
\* twice, and one from a remote name with "nord-" only inside
C7_Witness ==
  /\ MergeReturned
  /\ idProperty # "name"
  /\ \E i, k \in 1..Len(projectPorts) :
       /\ "url" \notin DOMAIN projectPorts[i]
       /\ FirstRemote(i).name = "nord-nord-x"
       /\ projectPorts[i].name # "nord-nord-x"
       /\ "url" \notin DOMAIN projectPorts[k]
       /\ FirstRemote(k).name = "x-nord-y"

\* C8 as stated, for every merged record: releaseLatest is undefined if the
\* matched remote record has no release and the node of its first release
\* otherwise; and the merge returns whenever every static record has a match.
C8_ReleaseLatestOfEveryRecord ==
  (ran /\ Covered) =>
    /\ ret.kind = "list"
    /\ \A i \in 1..Len(projectPorts) :
         LET rel == FirstRemote(i).releases.edges
         IN  merged[i].releaseLatest =
               IF Len(rel) = 0 THEN Undefined ELSE rel[1].node

\* C8, amended: when every static record has a match the merge returns, and for
\* a static record without a releaseLatest field of its own, releaseLatest is
\* undefined if the remote record has no release and the node of its first
\* release otherwise.
C8_ReleaseLatest ==
  (ran /\ Covered) =>
    /\ ret.kind = "list"
    /\ \A i \in 1..Len(projectPorts) :
         "releaseLatest" \notin DOMAIN projectPorts[i] =>
           LET rel == FirstRemote(i).releases.edges
           IN  merged[i].releaseLatest =
                 IF Len(rel) = 0 THEN Undefined ELSE rel[1].node

\* one record from a remote record without a release, one from one with
C8_Witness ==
  /\ MergeReturned
  /\ \E i, k \in 1..Len(projectPorts) :
       /\ "releaseLatest" \notin DOMAIN projectPorts[i]
       /\ Len(FirstRemote(i).releases.edges) = 0
       /\ "releaseLatest" \notin DOMAIN projectPorts[k]
       /\ Len(FirstRemote(k).releases.edges) = 1

\* C10: every merged record takes its remote fields (id, name, repository
\* url, stargazer count, release) from the first remote record, in edge order,
\* with the static record's join value, whatever later records carry it too.
C10_FirstMatchWins ==
  MergeReturned =>
    \A i \in 1..Len(projectPorts) :
      LET S == projectPorts[i]
          R == FirstRemote(i)
          md == merged[i]
      IN  /\ \A f \in {"id", "name"} \ DOMAIN S : md[f] = R[f]
          /\ "stargazers" \notin DOMAIN S => md.stargazers.count = R.stargazers.totalCount
          /\ "gitHubRepositoryUrl" \notin DOMAIN S => md.gitHubRepositoryUrl = R.url
          /\ "releaseLatest" \notin DOMAIN S =>
               md.releaseLatest =
                 IF R.releases.edges = <<>> THEN Undefined ELSE R.releases.edges[1].node

\* a static record whose name two remote records with different ids carry
C10_Witness ==
  /\ MergeReturned
  /\ idProperty = "name"
  /\ \E i \in 1..Len(projectPorts) :
       /\ projectPorts[i] = portVim
       /\ \E j, k \in Matches(portVim) :
            gitHubApi.edges[j].node.id # gitHubApi.edges[k].node.id

----------------------------------------------------------------------------
(* Properties of the hook over a sequence of calls (Spec) *)

\* a step that is a call of the hook: neither a new query result nor a remount
CallStep == fetches' = fetches /\ ret'.kind # "none"

\* C5: a call that is not the instance's first and sees the query result object
\* of the previous call does not run the merge body and returns the list of the
\* previous call; the merge body runs only on a first call or a new object.
C5_MemoOnIdentity ==
  [][CallStep =>
       /\ (lastApi # 0 /\ lastApi = gitHubApi.ref) =>
            (~ran' /\ ret' = ret /\ lists' = lists /\ memo' = memo)
       /\ ran' => (lastApi = 0 \/ lastApi # gitHubApi.ref)]_vars

\* after a new query result the merge was redone once, and a later call with
\* another idProperty returned that second list again
C5_Witness ==
  /\ ~ran
  /\ ret.kind = "list"
  /\ ret.ref = 2
  /\ gitHubApi.ref = 2
  /\ lastApi = 2
  /\ idProperty # runs[Len(runs)].idProperty

\* C6: the list a call returns is the merge joined on that call's idProperty.
C6_JoinedOnLatestIdProperty ==
  (ret.kind = "list" /\ lastApi = gitHubApi.ref) =>
    LET r == mergedMetadata(projectPorts, gitHubApi.edges, idProperty, engine)
    IN  ~r.threw /\ ret.list = r.list

====
